---------------------------- MODULE Spec2Model ----------------------------
(***************************************************************************)
(* A model of Lib/gftools/fix.py: the functions that fix a font family so  *)
(* that it conforms to the Google Fonts specification.                     *)
(*                                                                         *)
(* A font (fontTools TTFont) is a record of the table fields fix.py reads  *)
(* or writes.  A Python string is a sequence of symbols: a symbol is a     *)
(* whitespace character or a piece of text without whitespace, so that     *)
(* str.split, str.join, str.strip and str.replace are computed, not        *)
(* assumed.  A Python exception is the value of the variable exc.          *)
(***************************************************************************)
EXTENDS Integers, Sequences, FiniteSets, TLC

VARIABLES
    fonts,      \* the family: a sequence of font records (the TTFont objects)
    pc,         \* position of the running function, "done", or "raised"
    exc,        \* the exception that ended the call ("" when none)
    call,       \* the arguments of the call under way or last made
    fonts0,     \* the family as it was when the call began
    stat,       \* per font, the axes gen_stat_tables handed to buildStatTable
    gf,         \* the Google Fonts collaborator: lookup outcome and its fonts
    log         \* the functions entered so far, in order

vars == <<fonts, pc, exc, call, fonts0, stat, gf, log>>

-----------------------------------------------------------------------------
(* Bounds of the model *)

MaxFonts == 2

\* The longest style name, in symbols
MaxStyleLen == 3

\* The most calls of fix_nametable on one font
MaxCalls == 2

-----------------------------------------------------------------------------
(* Python strings *)

SP == " "
NL == "\n"
Whitespace == {SP, NL}

RECURSIVE LStrip(_)
\* str.lstrip(): drop the leading whitespace
LStrip(s) ==
    IF s = <<>> THEN <<>>
    ELSE IF Head(s) \in Whitespace THEN LStrip(Tail(s)) ELSE s

RECURSIVE RStrip(_)
RStrip(s) ==
    IF s = <<>> THEN <<>>
    ELSE IF s[Len(s)] \in Whitespace THEN RStrip(SubSeq(s, 1, Len(s) - 1)) ELSE s

\* str.strip()
Strip(s) == RStrip(LStrip(s))

RECURSIVE SplitFrom(_, _, _)
\* The words of s: cur is the word being read, acc the words read so far.
SplitFrom(s, cur, acc) ==
    IF s = <<>> THEN (IF cur = <<>> THEN acc ELSE Append(acc, cur))
    ELSE IF Head(s) \in Whitespace
         THEN SplitFrom(Tail(s), <<>>, IF cur = <<>> THEN acc ELSE Append(acc, cur))
         ELSE SplitFrom(Tail(s), Append(cur, Head(s)), acc)

\* str.split(): the maximal runs of non-whitespace symbols, in order
Split(s) == SplitFrom(s, <<>>, <<>>)

RECURSIVE Join(_)
\* " ".join(words)
Join(words) ==
    IF words = <<>> THEN <<>>
    ELSE IF Len(words) = 1 THEN words[1]
    ELSE words[1] \o <<SP>> \o Join(Tail(words))

\* f"{a} {b}"
Fmt2(a, b) == a \o <<SP>> \o b

\* x in list, for a sequence
InSeq(x, s) == \E i \in 1..Len(s) : s[i] = x

\* s.startswith(sub) at position i
MatchAt(s, sub, i) ==
    /\ i + Len(sub) - 1 <= Len(s)
    /\ \A k \in 1..Len(sub) : s[i + k - 1] = sub[k]

\* sub in s, for strings
Contains(s, sub) == \E i \in 1..(Len(s) + 1) : MatchAt(s, sub, i)

RECURSIVE ReplaceFrom(_, _, _, _)
ReplaceFrom(s, old, new, i) ==
    IF i > Len(s) THEN (IF old = <<>> THEN new ELSE <<>>)
    ELSE IF old = <<>> THEN new \o <<s[i]>> \o ReplaceFrom(s, old, new, i + 1)
    ELSE IF MatchAt(s, old, i) THEN new \o ReplaceFrom(s, old, new, i + Len(old))
    ELSE <<s[i]>> \o ReplaceFrom(s, old, new, i + 1)

\* s.replace(old, new): every non-overlapping occurrence, left to right
Replace(s, old, new) == ReplaceFrom(s, old, new, 1)

\* the one-word string
W(x) == <<x>>

-----------------------------------------------------------------------------
(* Integers as bit fields *)

\* x & (1 << 7) != 0, with Bit7 = 1 << 7
Bit7 == 128

HasBit(x, b) == (x \div b) % 2 = 1
SetBit(x, b) == IF HasBit(x, b) THEN x ELSE x + b
ClearBit(x, b) == IF HasBit(x, b) THEN x - b ELSE x

-----------------------------------------------------------------------------
(* The name table: the Win US English record of each nameID, or NoRec *)

NoRec == <<"<no record>">>

NameIDs == {1, 2, 3, 4, 5, 6, 16, 17}

NoNames == [n \in NameIDs |-> NoRec]

\* get_name_record(ttFont, nameID, fallbackID): the string, or NoRec where
\* the code raises ValueError
get_name_record(f, nameID, fallbackID) ==
    IF f.names[nameID] # NoRec THEN f.names[nameID] ELSE f.names[fallbackID]

font_stylename(f) == get_name_record(f, 17, 2)

font_familyname(f) == get_name_record(f, 16, 1)


-----------------------------------------------------------------------------
(* The font: the fields of a TTFont that fix.py reads or writes *)

\* A font with no optional table, no name record and every field zero.
BlankFont ==
    [ hasFvar        |-> FALSE,     \* "fvar" in ttFont
      axes           |-> <<>>,      \* fvar.axes
      instances      |-> <<>>,      \* fvar.instances
      names          |-> NoNames,   \* name: the Win US English records
      otherNames     |-> {},        \* name: nameIDs with a record of another platform
      addedNames     |-> <<>>,      \* name: the strings of nameID 256, 257, ...
      tables         |-> {},        \* optional tables present (DSIG, fpgm, gasp, ...)
      version        |-> 3,         \* OS/2
      achVendID      |-> <<"GOOG">>,
      fsType         |-> 0,
      fsSelection    |-> 0,
      usWeightClass  |-> 0,
      usWinAscent    |-> 0,
      usWinDescent   |-> 0,
      sTypoAscender  |-> 0,
      sTypoDescender |-> 0,
      sTypoLineGap   |-> 0,
      ascent         |-> 0,         \* hhea
      descent        |-> 0,
      lineGap        |-> 0,
      headFlags      |-> 0,         \* head.flags
      fontRevision   |-> 1000,      \* in thousandths
      macStyle       |-> 0,
      yMin           |-> 0,
      yMax           |-> 0,
      italicAngle    |-> 0 ]        \* post

\* The sequences over S of length lo..hi
SeqsOf(S, lo, hi) == UNION {[1..n -> S] : n \in lo..hi}

\* s and f themselves, built element by element (TLC otherwise computes an
\* element of [i \in S |-> e] anew at every use)
StrictSeq(s) == SelectSeq(s, LAMBDA x : TRUE)
StrictFcn(f) == f @@ [x \in {} |-> x]

\* Body(v), with v computed once: a local variable of the code
Let(v, Body(_)) == CHOOSE r \in {Body(x) : x \in {v}} : TRUE

\* The result of a function that mutates the family and may raise
Ret(fs, e) == [fonts |-> fs, exc |-> e]

NoExc == ""

-----------------------------------------------------------------------------
(* Vertical metrics *)

typo_metrics_enabled(f) == HasBit(f.fsSelection, Bit7)

\* A copy that forgets hhea.lineGap
copy_vertical_metrics_short(src, dst) ==
    [dst EXCEPT !.usWinAscent    = src.usWinAscent,
                !.usWinDescent   = src.usWinDescent,
                !.sTypoAscender  = src.sTypoAscender,
                !.sTypoDescender = src.sTypoDescender,
                !.sTypoLineGap   = src.sTypoLineGap,
                !.ascent         = src.ascent,
                !.descent        = src.descent]

\* copy_vertical_metrics(src_font, dst_font): dst_font afterwards
copy_vertical_metrics(src, dst) ==
    [dst EXCEPT !.usWinAscent    = src.usWinAscent,
                !.usWinDescent   = src.usWinDescent,
                !.sTypoAscender  = src.sTypoAscender,
                !.sTypoDescender = src.sTypoDescender,
                !.sTypoLineGap   = src.sTypoLineGap,
                !.ascent         = src.ascent,
                !.descent        = src.descent,
                !.lineGap        = src.lineGap]

Min(S) == CHOOSE x \in S : \A y \in S : x <= y
Max(S) == CHOOSE x \in S : \A y \in S : x >= y
Abs(x) == IF x < 0 THEN -x ELSE x

\* The bounding box of the first font alone
family_bounding_box_first(fs) == << fs[1].yMin, fs[1].yMax >>

\* family_bounding_box(ttFonts): <<y_min, y_max>>
family_bounding_box(fs) ==
    << Min({fs[i].yMin : i \in 1..Len(fs)}), Max({fs[i].yMax : i \in 1..Len(fs)}) >>

\* The fonts styled exactly "Regular"
RegularIdx(fs) == {i \in 1..Len(fs) : font_stylename(fs[i]) = W("Regular")}

\* The fonts whose style name next() reads: all up to the first Regular one
ScannedIdx(fs) ==
    IF RegularIdx(fs) = {} THEN 1..Len(fs) ELSE 1..Min(RegularIdx(fs))

\* A reference font that is the first member whatever its style
SrcIdxFirst(fs) == 1

\* next((f for f in ttFonts if font_stylename(f) == "Regular"), ttFonts[0])
SrcIdx(fs) == IF RegularIdx(fs) = {} THEN 1 ELSE Min(RegularIdx(fs))

\* The reference font after lines 524-538
NormalizedSrc(fs) ==
    LET s0 == fs[SrcIdx(fs)]
        s1 == IF ~typo_metrics_enabled(s0)
              THEN [s0 EXCEPT !.fsSelection    = SetBit(s0.fsSelection, Bit7),
                              !.sTypoAscender  = s0.usWinAscent,
                              !.sTypoDescender = -s0.usWinDescent,
                              !.sTypoLineGap   = 0]
              ELSE s0
        s2 == [s1 EXCEPT !.ascent  = s1.sTypoAscender,
                         !.descent = s1.sTypoDescender,
                         !.lineGap = s1.sTypoLineGap]
        bb == family_bounding_box(fs)
    IN  [s2 EXCEPT !.usWinAscent = bb[2], !.usWinDescent = Abs(bb[1])]

\* fix_vertical_metrics(ttFonts): the family afterwards, or the exception
fix_vertical_metrics(fs) ==
    IF fs = <<>> THEN Ret(fs, "IndexError")
    ELSE IF \E i \in ScannedIdx(fs) : font_stylename(fs[i]) = NoRec
         THEN Ret(fs, "ValueError")
    ELSE LET src == NormalizedSrc(fs)
         IN  Ret([i \in 1..Len(fs) |->
                    copy_vertical_metrics(src,
                        [(IF i = SrcIdx(fs) THEN src ELSE fs[i])
                            EXCEPT !.fsSelection = SetBit(@, Bit7)])],
                 NoExc)

-----------------------------------------------------------------------------
(* fix_vertical_metrics called on a family *)

\* Two fonts of the model differ in every vertical-metrics field.
MetricsProfiles ==
    { [usWinAscent |-> 900, usWinDescent |-> 250, sTypoAscender |-> 750,
       sTypoDescender |-> -240, sTypoLineGap |-> 100,
       ascent |-> 950, descent |-> -260, lineGap |-> 0],
      [usWinAscent |-> 1000, usWinDescent |-> 300, sTypoAscender |-> 800,
       sTypoDescender |-> -200, sTypoLineGap |-> 0,
       ascent |-> 1000, descent |-> -300, lineGap |-> 90] }

BBoxes == { <<-200, 800>>, <<-210, 790>>, <<10, 700>> }

WithMetrics(f, m, bb, sel) ==
    [f EXCEPT !.usWinAscent = m.usWinAscent, !.usWinDescent = m.usWinDescent,
              !.sTypoAscender = m.sTypoAscender, !.sTypoDescender = m.sTypoDescender,
              !.sTypoLineGap = m.sTypoLineGap, !.ascent = m.ascent,
              !.descent = m.descent, !.lineGap = m.lineGap,
              !.yMin = bb[1], !.yMax = bb[2], !.fsSelection = sel]

WithStyle(f, family, style) ==
    [f EXCEPT !.names = [NoNames EXCEPT ![1] = family, ![2] = style]]

MetricsStyles == { W("Regular"), W("Bold"), NoRec }

\* fsSelection: nothing set; REGULAR; USE_TYPO_METRICS and REGULAR
MetricsSelections == { 0, 64, 192 }

MetricsFonts ==
    { WithMetrics(WithStyle(BlankFont, W("Noto"), st), m, bb, sel) :
        st \in MetricsStyles, m \in MetricsProfiles, bb \in BBoxes,
        sel \in MetricsSelections }

NoGF == [outcome |-> "unused", fonts |-> <<>>]

InitMetrics ==
    /\ fonts \in SeqsOf(MetricsFonts, 0, MaxFonts)
    /\ fonts0 = fonts
    /\ pc = "start"
    /\ exc = NoExc
    /\ call = [fn |-> "fix_vertical_metrics"]
    /\ stat = <<>>
    /\ gf = NoGF
    /\ log = <<>>

\* The call fix_vertical_metrics(fonts)
FixVerticalMetrics ==
    /\ pc = "start"
    /\ call.fn = "fix_vertical_metrics"
    /\ \E r \in {fix_vertical_metrics(fonts)} :
           /\ fonts' = r.fonts
           /\ exc' = r.exc
           /\ pc' = IF r.exc = NoExc THEN "done" ELSE "raised"
    /\ log' = Append(log, "fix_vertical_metrics")
    /\ UNCHANGED <<call, fonts0, stat, gf>>

NextMetrics == FixVerticalMetrics

SpecMetrics == InitMetrics /\ [][NextMetrics]_vars

SameVerticalMetrics(f, g) ==
    /\ f.usWinAscent = g.usWinAscent
    /\ f.usWinDescent = g.usWinDescent
    /\ f.sTypoAscender = g.sTypoAscender
    /\ f.sTypoDescender = g.sTypoDescender
    /\ f.sTypoLineGap = g.sTypoLineGap
    /\ f.ascent = g.ascent
    /\ f.descent = g.descent
    /\ f.lineGap = g.lineGap

Harmonized(fs) ==
    /\ \A i, j \in 1..Len(fs) : SameVerticalMetrics(fs[i], fs[j])
    /\ \A i \in 1..Len(fs) : typo_metrics_enabled(fs[i])

\* C1: after fix_vertical_metrics has run on a family, every two members
\* have equal values in the eight vertical-metrics fields and every member
\* has OS/2 fsSelection bit 7 set, whatever the members held before.
C1_AllMembersHarmonized ==
    (pc = "done" /\ call.fn = "fix_vertical_metrics") => Harmonized(fonts)

\* C1 witness: the call returned on a family of two whose members began with
\* different metrics, neither with bit 7 set.
C1_Witness ==
    /\ pc = "done"
    /\ call.fn = "fix_vertical_metrics"
    /\ Len(fonts0) >= 2
    /\ ~SameVerticalMetrics(fonts0[1], fonts0[2])
    /\ fonts0[1].lineGap # fonts0[2].lineGap
    /\ ~typo_metrics_enabled(fonts0[1])
    /\ ~typo_metrics_enabled(fonts0[2])
    /\ Harmonized(fonts)


-----------------------------------------------------------------------------
(* The axis registry and the STAT table *)

ELIDABLE_AXIS_VALUE_NAME == 2

\* Python's None where a number is expected: a number that is no axis value
None == 0 - 1

\* Python's None where a string is expected
NoneStr == <<"<None>">>

\* LINKED_VALUES
LINKED_VALUES == [wght |-> <<400, 700>>, ital |-> <<0, 1>>]

LinkedTags == {"wght", "ital"}

FB(n, v) == [name |-> n, value |-> v]

\* gftools.axisreg.axis_registry, cut down to five axes and kept in its
\* iteration order.  As in the registry, "Roman" is a fallback name of two
\* axes, and opsz is the axis whose elidable value follows the fvar default.
axis_registry ==
    << [tag |-> "CRSV", display_name |-> "Cursive", default_value |-> 0,
        fallback |-> << FB("Roman", 0), FB("Cursive", 1) >>],
       [tag |-> "ital", display_name |-> "Italic", default_value |-> 0,
        fallback |-> << FB("Roman", 0), FB("Italic", 1) >>],
       [tag |-> "opsz", display_name |-> "Optical Size", default_value |-> 12,
        fallback |-> << FB("8pt", 8), FB("12pt", 12) >>],
       [tag |-> "wdth", display_name |-> "Width", default_value |-> 100,
        fallback |-> << FB("Condensed", 75), FB("Normal", 100) >>],
       [tag |-> "wght", display_name |-> "Weight", default_value |-> 400,
        fallback |-> << FB("Light", 300), FB("Regular", 400), FB("Bold", 700) >>] >>

RegistryTags == {axis_registry[i].tag : i \in 1..Len(axis_registry)}

\* axisreg[tag]
Reg(tag) == axis_registry[CHOOSE i \in 1..Len(axis_registry) : axis_registry[i].tag = tag]

\* [f.name for f in axis_object.fallback]
FallbackNames(rec) == {W(rec.fallback[i].name) : i \in 1..Len(rec.fallback)}

RECURSIVE Flatten(_)
Flatten(ss) == IF ss = <<>> THEN <<>> ELSE Head(ss) \o Flatten(Tail(ss))

\* The tags of the axes, in registry order, that have token as a fallback name
AxesOfToken(token) ==
    LET hit(i) == IF token \in FallbackNames(axis_registry[i])
                  THEN <<axis_registry[i].tag>> ELSE <<>>
    IN  Flatten([i \in 1..Len(axis_registry) |-> hit(i)])

\* stylename_to_axes(font_style): the returned list
stylename_to_axes(font_style) ==
    Let(Split(font_style),
        LAMBDA tokens : Flatten([k \in 1..Len(tokens) |-> AxesOfToken(tokens[k])]))

SeqToSet(s) == {s[i] : i \in 1..Len(s)}

\* _add_axis_value(style_name, value, flags, linked_value): the dict, with
\* linkedValue = None for the key left out
_add_axis_value(style_name, value, flags, linked_value) ==
    [value |-> value, name |-> style_name, flags |-> flags,
     linkedValue |-> IF linked_value # None /\ linked_value # 0
                     THEN linked_value ELSE None]

\* next((i.name for i in fallback if i.value == default_value), None)
DefaultName(rec) ==
    LET hits == {i \in 1..Len(rec.fallback) : rec.fallback[i].value = rec.default_value}
    IN  IF hits = {} THEN NoneStr ELSE W(rec.fallback[Min(hits)].name)

\* _default_axis_value(axis, axisreg)
_default_axis_value(axis) ==
    _add_axis_value(DefaultName(Reg(axis)), Reg(axis).default_value,
                    ELIDABLE_AXIS_VALUE_NAME, None)

\* next((i.value for i in fallback if i.name == style_name), None)
FallbackValue(rec, style_name) ==
    LET hits == {i \in 1..Len(rec.fallback) : W(rec.fallback[i].name) = style_name}
    IN  IF hits = {} THEN None ELSE rec.fallback[Min(hits)].value

\* The last fvar axis with this tag (a dict keeps the last assignment)
FvarAxis(font, tag) ==
    font.axes[Max({i \in 1..Len(font.axes) : font.axes[i].axisTag = tag})]

\* The Axis Values _gen_stat_using_fvar gives one registered fvar axis
FvarAxisValues(font, axis) ==
    LET inRange(fb) == fb.value >= axis.minValue /\ fb.value <= axis.maxValue
        elided(fb) ==
            \/ axis.axisTag = "opsz" /\ FvarAxis(font, axis.axisTag).defaultValue = fb.value
            \/ fb.value = Reg(axis.axisTag).default_value
        val(fb) == _add_axis_value(W(fb.name), fb.value,
                       IF elided(fb) THEN ELIDABLE_AXIS_VALUE_NAME ELSE 0, None)
    IN  Let(SelectSeq(Reg(axis.axisTag).fallback, inRange),
            LAMBDA kept : StrictSeq([k \in 1..Len(kept) |-> val(kept[k])]))

\* _gen_stat_using_fvar(axis_reg, font): the dict tag -> axis record, for a
\* font that has an fvar table
_gen_stat_using_fvar(font) ==
    LET tags == {font.axes[i].axisTag : i \in 1..Len(font.axes)} \cap RegistryTags
    IN  StrictFcn([t \in tags |->
            [tag |-> t, name |-> Reg(t).display_name,
             values |-> FvarAxisValues(font, FvarAxis(font, t))]])

\* {k: v for k, v in zip(font_style_axes, font_style.split())}: the token
\* zip pairs with the axis, the last pair of a repeated axis winning
StyleTokenOf(font_style, axis) ==
    LET Pick(axes, tokens) ==
            Let({k \in 1..Len(axes) : k <= Len(tokens) /\ axes[k] = axis},
                LAMBDA ks : IF ks = {} THEN NoneStr ELSE tokens[Max(ks)])
    IN  Let(stylename_to_axes(font_style),
            LAMBDA axes : Let(Split(font_style), LAMBDA tokens : Pick(axes, tokens)))

\* The record lines 783-801 add for an axis that is not in the font's fvar
MissingAxisRecord(font, axis) ==
    Let(StyleTokenOf(font_stylename(font), axis), LAMBDA style_name :
        [tag |-> axis, name |-> Reg(axis).display_name,
         values |-> IF style_name = NoneStr
                    THEN << _default_axis_value(axis) >>
                    ELSE << _add_axis_value(style_name,
                                FallbackValue(Reg(axis), style_name), 0, None) >>])

\* family_axes: lines 766-769
FamilyAxes(fs) ==
    UNION {SeqToSet(stylename_to_axes(font_stylename(fs[i]))) : i \in 1..Len(fs)}

\* stat_tbl of one font after lines 773-801
StatTbl(font, family_axes) ==
    Let(_gen_stat_using_fvar(font), LAMBDA fv :
        StrictFcn([t \in DOMAIN fv \cup family_axes |->
            IF t \in DOMAIN fv THEN fv[t] ELSE MissingAxisRecord(font, t)]))

\* seen_axis_values[axis]: lines 805-812
SeenAxisValues(tbls, axis) ==
    UNION { {tbls[i][axis].values[k].value : k \in 1..Len(tbls[i][axis].values)} :
            i \in {j \in 1..Len(tbls) : axis \in DOMAIN tbls[j]} }

\* The values of one axis record after line 818-820, seen being the
\* family's seen_axis_values of that axis
LinkValues(values, tag, seen) ==
    StrictSeq([k \in 1..Len(values) |->
        IF values[k].value = LINKED_VALUES[tag][1] /\ LINKED_VALUES[tag][2] \in seen
        THEN [values[k] EXCEPT !.linkedValue = LINKED_VALUES[tag][2]]
        ELSE values[k]])

\* Linking without looking at the values the family has
LinkedNoCheck(tbls) ==
    StrictSeq([i \in 1..Len(tbls) |->
        StrictFcn([t \in DOMAIN tbls[i] |->
            IF t \notin LinkedTags THEN tbls[i][t]
            ELSE [tbls[i][t] EXCEPT !.values =
                     LinkValues(@, t, {LINKED_VALUES[t][2]})]])])

\* The stat tables after lines 813-820 have added the linkedValues
Linked(tbls) ==
    Let(StrictFcn([t \in LinkedTags |-> SeenAxisValues(tbls, t)]), LAMBDA seen :
        StrictSeq([i \in 1..Len(tbls) |->
            StrictFcn([t \in DOMAIN tbls[i] |->
                IF t \notin LinkedTags THEN tbls[i][t]
                ELSE [tbls[i][t] EXCEPT !.values = LinkValues(@, t, seen[t])]])]))

\* The values of one axis after lines 848-852
ElideValues(values, listed) ==
    StrictSeq([k \in 1..Len(values) |->
        IF values[k].value \in listed
        THEN [values[k] EXCEPT !.flags = SetBit(@, ELIDABLE_AXIS_VALUE_NAME)]
        ELSE [values[k] EXCEPT !.flags = ClearBit(@, ELIDABLE_AXIS_VALUE_NAME)]])

\* An override that sets the bit of the listed values and clears none
_update_elided_axis_values_setonly(axes, elided_values) ==
    StrictSeq([a \in 1..Len(axes) |->
        IF axes[a].tag \notin DOMAIN elided_values THEN axes[a]
        ELSE [axes[a] EXCEPT !.values =
                [k \in 1..Len(@) |->
                    IF @[k].value \in elided_values[axes[a].tag]
                    THEN [@[k] EXCEPT !.flags = SetBit(@, ELIDABLE_AXIS_VALUE_NAME)]
                    ELSE @[k]]]])

\* _update_elided_axis_values(stat, elided_values): the axes afterwards
_update_elided_axis_values(axes, elided_values) ==
    StrictSeq([a \in 1..Len(axes) |->
        IF axes[a].tag \notin DOMAIN elided_values THEN axes[a]
        ELSE [axes[a] EXCEPT !.values = ElideValues(@, elided_values[axes[a].tag])]])

\* What gen_stat_tables leaves: the axes given to buildStatTable, font by
\* font, and the exception that ended it
StatRet(built, e) == [stat |-> built, exc |-> e]

\* [stat_tbl[a] for a in axis_order], then the override of line 833-834
AxesFor(tbl, order, elided_axis_values) ==
    Let(StrictSeq([k \in 1..Len(order) |-> tbl[order[k]]]), LAMBDA axes :
        IF DOMAIN elided_axis_values # {}
        THEN _update_elided_axis_values(axes, elided_axis_values)
        ELSE axes)

\* Lines 822-835: the check of axis_order, then the axes of each font in
\* turn, up to the first font whose table lacks an ordered axis
BuildAll(tbls, axis_order, elided_axis_values) ==
    LET Emit(order, short) ==
            StatRet(StrictSeq([i \in 1..(IF short = {} THEN Len(tbls) ELSE Min(short) - 1)
                                 |-> AxesFor(tbls[i], order, elided_axis_values)]),
                    IF short = {} THEN NoExc ELSE "KeyError")   \* stat_tbl[a], line 831
        Ordered(seen_axes) ==
            IF seen_axes \ SeqToSet(axis_order) # {}
            THEN StatRet(<<>>, "ValueError")
            ELSE Let(SelectSeq(axis_order, LAMBDA a : a \in seen_axes), LAMBDA order :
                     Emit(order, {i \in 1..Len(tbls) :
                                    ~(SeqToSet(order) \subseteq DOMAIN tbls[i])}))
    IN  Let(UNION {DOMAIN tbls[i] : i \in 1..Len(tbls)}, Ordered)

\* Lines 765-820: the stat table of every font, linkedValues added
LinkedTbls(fs) ==
    Let(FamilyAxes(fs), LAMBDA family_axes :
        Let(StrictSeq([i \in 1..Len(fs) |-> StatTbl(fs[i], family_axes)]), Linked))

\* gen_stat_tables(fonts, axis_order, elided_axis_values)
gen_stat_tables(fs, axis_order, elided_axis_values) ==
    IF \E i \in 1..Len(fs) : font_stylename(fs[i]) = NoRec
    THEN StatRet(<<>>, "ValueError")
    ELSE IF \E i \in 1..Len(fs) : ~fs[i].hasFvar
    THEN StatRet(<<>>, "KeyError")             \* font["fvar"], line 694
    ELSE Let(LinkedTbls(fs),
             LAMBDA tbls : BuildAll(tbls, axis_order, elided_axis_values))

-----------------------------------------------------------------------------
(* gen_stat_tables called on a family *)

Axis(tag, lo, def, hi) ==
    [axisTag |-> tag, minValue |-> lo, defaultValue |-> def, maxValue |-> hi]

\* The fvar tables of the model's fonts; <<>> stands for no fvar table
WghtWide == << Axis("wght", 300, 400, 700) >>
WghtNarrow == << Axis("wght", 300, 400, 400) >>
WdthOnly == << Axis("wdth", 75, 100, 100) >>
WghtWdth == << Axis("wght", 300, 400, 700), Axis("wdth", 75, 100, 100) >>
OpszOther == << Axis("opsz", 8, 8, 12), Axis("XXXX", 0, 0, 1) >>

StatFont(st, ax) ==
    [WithStyle(BlankFont, W("Noto"), st) EXCEPT !.hasFvar = (ax # <<>>), !.axes = ax]

StatFonts ==
    { StatFont(st, ax) :
        st \in { W("Regular"), W("Bold"), <<"Foo", SP, "Italic">> },
        ax \in { WghtWide, WghtNarrow, WdthOnly, <<>> } }
    \cup { StatFont(<<"Bold", SP, "Italic">>, WghtWide),
           StatFont(W("Regular"), WghtWdth),
           StatFont(W("Regular"), OpszOther) }

AxisOrders ==
    { << "wght" >>,
      << "opsz", "wdth", "wght", "ital", "CRSV" >>,
      << "CRSV", "ital", "wght", "wdth", "opsz" >> }

NoElided == [t \in {} |-> {}]

ElidedArgs ==
    { NoElided,
      [t \in {"wght"} |-> {400}],
      [t \in {"wght", "wdth"} |-> IF t = "wght" THEN {700} ELSE {75}] }

InitStat ==
    /\ fonts \in SeqsOf(StatFonts, 1, MaxFonts)
    /\ fonts0 = fonts
    /\ pc = "start"
    /\ exc = NoExc
    /\ call = [fn |-> "gen_stat_tables"]
    /\ stat = <<>>
    /\ gf = NoGF
    /\ log = <<>>

\* The call gen_stat_tables(fonts, axis_order, elided_axis_values)
GenStatTables ==
    /\ pc = "start"
    /\ call.fn = "gen_stat_tables"
    /\ \E order \in AxisOrders, elided \in ElidedArgs :
         \E r \in {gen_stat_tables(fonts, order, elided)} :
             /\ stat' = r.stat
             /\ exc' = r.exc
             /\ pc' = IF r.exc = NoExc THEN "done" ELSE "raised"
             /\ call' = [fn |-> "gen_stat_tables", axis_order |-> order,
                         elided_axis_values |-> elided]
    /\ log' = Append(log, "gen_stat_tables")
    /\ UNCHANGED <<fonts, fonts0, gf>>

NextStat == GenStatTables

SpecStat == InitStat /\ [][NextStat]_vars


\* The Axis Values a font's emitted axes hold on the axis tag
ValuesOn(axes, tag) ==
    UNION { SeqToSet(axes[a].values) : a \in {b \in 1..Len(axes) : axes[b].tag = tag} }

Elidable(v) == HasBit(v.flags, ELIDABLE_AXIS_VALUE_NAME)

Returned == pc = "done" /\ call.fn = "gen_stat_tables"

\* C2: in the tables gen_stat_tables produces, a wght AxisValue with value
\* 400 carries linkedValue 700 exactly when some font of the family has a
\* wght AxisValue with value 700, and a wght AxisValue with another value
\* carries no linkedValue.
C2_LinkedValue ==
    Returned =>
        \A i \in 1..Len(stat) : \A v \in ValuesOn(stat[i], "wght") :
            /\ v.value = 400 =>
                 ( v.linkedValue = 700 <=>
                     \E j \in 1..Len(stat) : \E w \in ValuesOn(stat[j], "wght") :
                         w.value = 700 )
            /\ v.value = 400 => v.linkedValue \in {700, None}
            /\ v.value # 400 => v.linkedValue = None

\* C2 witness: a font whose only wght value is 400 is linked to the 700 that
\* another font of the family brings.
C2_Witness ==
    /\ Returned
    /\ \E i, j \in 1..Len(stat) :
         /\ \A v \in ValuesOn(stat[i], "wght") : v.value = 400 /\ v.linkedValue = 700
         /\ ValuesOn(stat[i], "wght") # {}
         /\ \E w \in ValuesOn(stat[j], "wght") : w.value = 700 /\ w.linkedValue = None

\* The axes gen_stat_tables emits for the same call without an override
Unoverridden == gen_stat_tables(fonts, call.axis_order, NoElided).stat

\* C3: with elided_axis_values naming an axis, every emitted AxisValue on
\* that axis has the elidable bit set if its value is listed and cleared
\* otherwise, whatever was computed before; AxisValues on axes the override
\* does not name keep their computed flags.
C3_ElisionOverride ==
    (call.fn = "gen_stat_tables" /\ pc # "start"
        /\ DOMAIN call.elided_axis_values # {}) =>
        \A i \in 1..Len(stat) : \A a \in 1..Len(stat[i]) :
            IF stat[i][a].tag \in DOMAIN call.elided_axis_values
            THEN \A k \in 1..Len(stat[i][a].values) :
                    Elidable(stat[i][a].values[k]) <=>
                        stat[i][a].values[k].value
                            \in call.elided_axis_values[stat[i][a].tag]
            ELSE stat[i][a] = Unoverridden[i][a]

\* C3 witness: the override {"wght": [700], ...} clears the bit of the
\* default 400 and sets that of 700, next to an axis it does not name.
C3_Witness ==
    /\ Returned
    /\ "wght" \in DOMAIN call.elided_axis_values
    /\ \E i \in 1..Len(stat) :
         /\ \E v \in ValuesOn(stat[i], "wght") : v.value = 400 /\ ~Elidable(v)
         /\ \E v \in ValuesOn(stat[i], "wght") : v.value = 700 /\ Elidable(v)
         /\ \E v \in ValuesOn(Unoverridden[i], "wght") : v.value = 400 /\ Elidable(v)
         /\ \E a \in 1..Len(stat[i]) : stat[i][a].tag = "ital"

\* The axis tags the table of font i has entries for
TableTags(fs, i) == DOMAIN StatTbl(fs[i], FamilyAxes(fs))

ObservedTags(fs) == UNION {TableTags(fs, i) : i \in 1..Len(fs)}

\* C4: for a family of variable fonts and an axis_order holding every axis
\* tag observed across the family, gen_stat_tables gives the builder, for
\* each font, exactly the axes the font's own table has, in the order of
\* axis_order, also when the fonts do not all have the same axes.
C4_AxesOfEachFont ==
    ( /\ call.fn = "gen_stat_tables" /\ pc # "start"
      /\ \A i \in 1..Len(fonts) : fonts[i].hasFvar
      /\ ObservedTags(fonts) \subseteq SeqToSet(call.axis_order) ) =>
        /\ pc = "done"
        /\ Len(stat) = Len(fonts)
        /\ \A i \in 1..Len(fonts) :
             [a \in 1..Len(stat[i]) |-> stat[i][a].tag]
                = SelectSeq(call.axis_order, LAMBDA t : t \in TableTags(fonts, i))

\* C9: for the static fonts "Regular" and "Bold" and axis_order ["wght"],
\* gen_stat_tables completes with one wght AxisValue per font: 400,
\* "Regular", elidable and linked to 700; and 700, "Bold", not elidable.
C9_StaticRegularBold ==
    ( /\ call.fn = "gen_stat_tables" /\ pc # "start"
      /\ fonts = << StatFont(W("Regular"), <<>>), StatFont(W("Bold"), <<>>) >>
      /\ call.axis_order = << "wght" >> /\ call.elided_axis_values = NoElided ) =>
        /\ pc = "done"
        /\ Len(stat) = 2
        /\ \E v \in ValuesOn(stat[1], "wght") :
             /\ ValuesOn(stat[1], "wght") = {v}
             /\ v.value = 400 /\ v.name = W("Regular") /\ Elidable(v)
             /\ v.linkedValue = 700
        /\ \E v \in ValuesOn(stat[2], "wght") :
             /\ ValuesOn(stat[2], "wght") = {v}
             /\ v.value = 700 /\ v.name = W("Bold") /\ ~Elidable(v)

\* The tokens of a style name that are fallback names of the axis
TokensFor(font_style, axis) ==
    {t \in SeqToSet(Split(font_style)) : t \in FallbackNames(Reg(axis))}

\* C10: every font gets, on every axis some member's style name implies and
\* that is no fvar axis of the font, exactly one AxisValue: elidable and at
\* the registry default when the font's style name has no token for the
\* axis, else not elidable, named by that token and at its fallback value;
\* for every style name, also one with tokens that match no axis.  (Stated
\* of calls without elided_axis_values, which would overwrite the flags.)
C10_MissingAxisValue ==
    (Returned /\ call.elided_axis_values = NoElided) =>
        \A i \in 1..Len(stat) :
            \A axis \in FamilyAxes(fonts) \
                        {fonts[i].axes[k].axisTag : k \in 1..Len(fonts[i].axes)} :
                \E v \in ValuesOn(stat[i], axis) :
                    /\ ValuesOn(stat[i], axis) = {v}
                    /\ IF TokensFor(font_stylename(fonts[i]), axis) = {}
                       THEN Elidable(v) /\ v.value = Reg(axis).default_value
                       ELSE /\ ~Elidable(v)
                            /\ v.name \in TokensFor(font_stylename(fonts[i]), axis)
                            /\ v.value = FallbackValue(Reg(axis), v.name)
                            /\ v.value # None


-----------------------------------------------------------------------------
(* The name table fixes *)

\* WEIGHT_NAMES: _KNOWN_WEIGHTS without "", with Hairline and ExtraBlack
WEIGHT_NAMES ==
    [Thin |-> 100, ExtraLight |-> 200, Light |-> 300, Regular |-> 400,
     Medium |-> 500, SemiBold |-> 600, Bold |-> 700, ExtraBold |-> 800,
     Black |-> 900, Hairline |-> 1, ExtraBlack |-> 1000]

\* t in list(WEIGHT_NAMES), for a token t.  No two symbols of the model
\* spell a weight name when put side by side.
IsWeightName(t) == Len(t) = 1 /\ t[1] \in DOMAIN WEIGHT_NAMES

RIBBI == { W("Regular"), W("Bold"), W("Italic"), <<"Bold", SP, "Italic">> }

\* s.replace(' ', '')
NoSpaces(s) == SelectSeq(s, LAMBDA c : c # SP)

\* The part of s before its first ";": s.split(";")[0]
RECURSIVE BeforeSemicolon(_)
BeforeSemicolon(s) ==
    IF s = <<>> \/ Head(s) = ";" THEN <<>> ELSE <<Head(s)>> \o BeforeSemicolon(Tail(s))

\* s.lstrip("Version "): the leading symbols spelt with those letters only
RECURSIVE LStripVersion(_)
LStripVersion(s) ==
    IF s # <<>> /\ Head(s) \in {"Version", SP} THEN LStripVersion(Tail(s)) ELSE s

\* f"{x:.3f}" of a number of thousandths below 10
Fmt3f(n) ==
    << ToString(n \div 1000), ".", ToString((n \div 100) % 10),
       ToString((n \div 10) % 10), ToString(n % 10) >>

\* _font_version(font)
_font_version(f) ==
    IF f.names[5] = NoRec THEN Fmt3f(f.fontRevision)
    ELSE Strip(LStripVersion(BeforeSemicolon(f.names[5])))

\* _unique_name(ttFont, nameids), ps_name being nameids[6]
_unique_name(f, ps_name) ==
    _font_version(f) \o <<";">> \o Strip(f.achVendID) \o <<";">> \o ps_name

\* The font after lines 354-377: only Win US English records, none with a
\* linebreak
Pruned(f) ==
    [f EXCEPT !.otherNames = {},
              !.names = [n \in NameIDs |->
                            IF Contains(f.names[n], <<NL>>) THEN NoRec ELSE f.names[n]]]

\* a or b, for two strings
Or(a, b) == IF a # <<>> THEN a ELSE b

NotItalic(t) == t # W("Italic")
WeightOrItalic(t) == IsWeightName(t) \/ t = W("Italic")
NeitherWeightNorItalic(t) == ~WeightOrItalic(t)

\* A typographic family name that keeps the weight tokens
TypoFamilyKeepingWeights(family_name, tokens) ==
    Strip(Fmt2(family_name, Join(SelectSeq(tokens, NotItalic))))

\* nameids[16]: lines 397-400
TypoFamily(family_name, tokens) ==
    Strip(Fmt2(family_name, Join(SelectSeq(tokens, NeitherWeightNorItalic))))

\* nameids 1, 2, 16, 17 of lines 385-402; NoRec for a key the dict lacks
StyleNameIDs(family_name, style_name) ==
    IF style_name \in RIBBI
    THEN [n \in {1, 2, 16, 17} |->
            CASE n = 1 -> family_name
              [] n = 2 -> style_name
              [] OTHER -> NoRec]
    ELSE Let(Split(style_name), LAMBDA tokens :
         [n \in {1, 2, 16, 17} |->
            CASE n = 1 -> Strip(Fmt2(family_name, Join(SelectSeq(tokens, NotItalic))))
              [] n = 2 -> IF InSeq(W("Italic"), tokens) THEN W("Italic") ELSE W("Regular")
              [] n = 16 -> TypoFamily(family_name, tokens)
              [] OTHER -> Join(SelectSeq(tokens, WeightOrItalic))])

\* dict.get(k), None read as ""
Get(ids, k) == IF ids[k] = NoRec THEN <<>> ELSE ids[k]

\* All of nameids: lines 385-410
AllNameIDs(f, family_name, style_name) ==
    Let(StyleNameIDs(family_name, style_name), LAMBDA ids :
    Let(Or(Get(ids, 16), Get(ids, 1)), LAMBDA family :
    Let(Or(Get(ids, 17), Get(ids, 2)), LAMBDA style :
        [n \in {1, 2, 3, 4, 6, 16, 17} |->
            CASE n = 4 -> Fmt2(family, style)
              [] n = 6 -> NoSpaces(family) \o <<"-">> \o NoSpaces(style)
              [] n = 3 -> _unique_name(f, NoSpaces(family) \o <<"-">> \o NoSpaces(style))
              [] OTHER -> ids[n]])))

\* The name records after lines 412-432, f being the pruned font
Renamed(f, ids) ==
    Let(font_familyname(f), LAMBDA current_family_name :
    Let(Or(Get(ids, 16), Get(ids, 1)), LAMBDA family_name :
      StrictFcn(
        [n \in NameIDs |->
            IF n \in DOMAIN ids /\ ids[n] # NoRec THEN ids[n]
            ELSE IF n \in {16, 17} THEN NoRec
            ELSE IF f.names[n] # NoRec /\ Contains(f.names[n], current_family_name)
                 THEN Replace(f.names[n], current_family_name, family_name)
                 ELSE f.names[n]])))

FontRet(f, e) == [font |-> f, exc |-> e]

\* update_nametable(ttFont, family_name, style_name); "" for an argument
\* left out
update_nametable(f, family_name, style_name) ==
    IF f.hasFvar THEN FontRet(f, "ValueError")
    ELSE Let(Pruned(f), LAMBDA g :
         Let(IF family_name = <<>> THEN font_familyname(g) ELSE family_name, LAMBDA fam :
         Let(IF style_name = <<>> THEN font_stylename(g) ELSE style_name, LAMBDA sty :
            IF fam = NoRec \/ sty = NoRec \/ font_familyname(g) = NoRec
            THEN FontRet(g, "ValueError")
            ELSE FontRet([g EXCEPT !.names = Renamed(g, AllNameIDs(g, fam, sty))],
                         NoExc))))

\* fix_nametable(ttFont)
fix_nametable(f) ==
    IF f.hasFvar THEN FontRet(f, NoExc)
    ELSE IF font_familyname(f) = NoRec \/ font_stylename(f) = NoRec
    THEN FontRet(f, "ValueError")
    ELSE update_nametable(f, font_familyname(f), font_stylename(f))


\* The symbols style names are written with
StyleSyms == { SP, "Regular", "Bold", "SemiBold", "Italic", "Condensed" }

StyleStrings == SeqsOf(StyleSyms, 0, MaxStyleLen)

NotoSans == <<"Noto", SP, "Sans">>

VersionRecord == <<"Version", SP, "1.101", ";", SP, "ttfautohint">>

\* A static font named in the RIBBI way: family in nameID 1, style in nameID 2
RibbiNamed(family, style) ==
    [BlankFont EXCEPT
        !.names = [NoNames EXCEPT ![1] = family, ![2] = style,
                                  ![4] = Fmt2(family, style),
                                  ![5] = VersionRecord]]

\* A static font with typographic names: family in nameID 16, style in 17
TypoNamed(family, style) ==
    [BlankFont EXCEPT
        !.names = [NoNames EXCEPT ![1] = Fmt2(family, W("Condensed")),
                                  ![2] = W("Regular"),
                                  ![16] = family, ![17] = style],
        !.achVendID = <<"GOOG", SP>>,
        !.fontRevision = 2500]

\* The fonts update_nametable is called on
NameFonts ==
    { RibbiNamed(NotoSans, W("Regular")),
      TypoNamed(NotoSans, W("SemiBold")),
      \* records of another platform
      [RibbiNamed(W("Noto"), W("Bold")) EXCEPT !.otherNames = {1, 2, 4}],
      \* a linebreak in the version record
      [RibbiNamed(NotoSans, W("Italic")) EXCEPT
          !.names[5] = <<"Version", SP, "1.101", NL, "beta">>],
      \* a linebreak in the only family name record
      [RibbiNamed(NotoSans, W("Regular")) EXCEPT !.names[1] = <<"Noto", NL, "Sans">>],
      \* no subfamily record
      [BlankFont EXCEPT !.names = [NoNames EXCEPT ![1] = NotoSans]],
      \* the empty family name, and no version record
      [RibbiNamed(<<>>, W("Bold")) EXCEPT !.names[5] = NoRec],
      \* a variable font
      [RibbiNamed(NotoSans, W("Regular")) EXCEPT
          !.hasFvar = TRUE, !.axes = <<Axis("wght", 400, 400, 700)>>] }

\* The family_name arguments; "" for the argument left out
FamilyArgs == { <<>>, NotoSans, W("Foo") }

InitUpdateNametable ==
    /\ fonts \in { <<f>> : f \in NameFonts }
    /\ fonts0 = fonts
    /\ pc = "start"
    /\ exc = NoExc
    /\ call = [fn |-> "update_nametable"]
    /\ stat = <<>>
    /\ gf = NoGF
    /\ log = <<>>

\* The call update_nametable(ttFont, family_name, style_name)
UpdateNametable ==
    /\ pc = "start"
    /\ call.fn = "update_nametable"
    /\ \E family_name \in FamilyArgs, style_name \in StyleStrings :
         \E r \in {update_nametable(fonts[1], family_name, style_name)} :
             /\ fonts' = <<r.font>>
             /\ exc' = r.exc
             /\ pc' = IF r.exc = NoExc THEN "done" ELSE "raised"
             /\ call' = [fn |-> "update_nametable", family_name |-> family_name,
                         style_name |-> style_name]
    /\ log' = Append(log, "update_nametable")
    /\ UNCHANGED <<fonts0, stat, gf>>

NextUpdateNametable == UpdateNametable

SpecUpdateNametable == InitUpdateNametable /\ [][NextUpdateNametable]_vars


\* The records update_nametable derives from the style name
StyleRecords(f) == [n \in {1, 2, 16, 17} |-> f.names[n]]

\* The call update_nametable(F, S), both arguments given, has returned
Updated(F, S) ==
    /\ pc = "done"
    /\ log = <<"update_nametable">>
    /\ call.family_name = F
    /\ call.style_name = S

\* F followed by the given tokens, a space between any two
FollowedBy(F, tokens) == Join(<<F>> \o tokens)

\* C5: when update_nametable(F, S) returns for a static font, F and S given:
\* for S other than Regular, Bold, Italic and Bold Italic, nameID 1 is F
\* followed by the tokens of S except Italic, nameID 2 is Italic if S has the
\* token Italic and Regular otherwise, nameID 16 is F followed by the tokens
\* of S that are neither weight names nor Italic, and nameID 17 is the tokens
\* of S that are weight names or Italic, in their order; for S one of the
\* four, nameID 1 is F, nameID 2 is S and there is no nameID 16 or 17 record.
\* ("Noto Sans", "Condensed SemiBold") gives "Noto Sans Condensed SemiBold",
\* "Regular", "Noto Sans Condensed", "SemiBold".
C5_DerivedNames ==
    /\ \A F \in FamilyArgs \ {<<>>}, S \in StyleStrings \ {<<>>} :
         Updated(F, S) =>
           LET n == fonts[1].names
               tokens == Split(S)
           IN  IF S \in { W("Regular"), W("Bold"), W("Italic"), <<"Bold", SP, "Italic">> }
               THEN n[1] = F /\ n[2] = S /\ n[16] = NoRec /\ n[17] = NoRec
               ELSE /\ n[1] = FollowedBy(F, SelectSeq(tokens, LAMBDA t : t # W("Italic")))
                    /\ n[2] = IF \E i \in 1..Len(tokens) : tokens[i] = W("Italic")
                              THEN W("Italic") ELSE W("Regular")
                    /\ n[16] = FollowedBy(F, SelectSeq(tokens,
                                   LAMBDA t : ~IsWeightName(t) /\ t # W("Italic")))
                    /\ n[17] = Join(SelectSeq(tokens,
                                   LAMBDA t : IsWeightName(t) \/ t = W("Italic")))
    /\ Updated(NotoSans, <<"Condensed", SP, "SemiBold">>) =>
           StyleRecords(fonts[1]) =
               [n \in {1, 2, 16, 17} |->
                   CASE n = 1 -> <<"Noto", SP, "Sans", SP, "Condensed", SP, "SemiBold">>
                     [] n = 2 -> <<"Regular">>
                     [] n = 16 -> <<"Noto", SP, "Sans", SP, "Condensed">>
                     [] n = 17 -> <<"SemiBold">>]

\* update_nametable("Noto Sans", "Condensed SemiBold") has returned, on a
\* font that had typographic names
C5_Witness ==
    /\ Updated(NotoSans, <<"Condensed", SP, "SemiBold">>)
    /\ fonts0[1].names[17] # NoRec
    /\ fonts[1].names[17] = <<"SemiBold">>

\* The fonts fix_nametable is called on: every style name of the bounded
\* length, in nameID 2 or in nameID 17
FixNameFonts ==
    { RibbiNamed(NotoSans, style) : style \in StyleStrings }
    \cup { TypoNamed(NotoSans, style) : style \in StyleStrings }
    \cup { [BlankFont EXCEPT !.names = [NoNames EXCEPT ![1] = NotoSans]],
           [RibbiNamed(NotoSans, W("Regular")) EXCEPT
               !.hasFvar = TRUE, !.axes = <<Axis("wght", 400, 400, 700)>>] }

InitFixNametable ==
    /\ fonts \in { <<f>> : f \in FixNameFonts }
    /\ fonts0 = fonts
    /\ pc = "start"
    /\ exc = NoExc
    /\ call = [fn |-> "fix_nametable"]
    /\ stat = <<>>
    /\ gf = NoGF
    /\ log = <<>>

\* The call fix_nametable(ttFont), on a font fresh or fixed before
FixNametable ==
    /\ pc \in {"start", "done"}
    /\ call.fn = "fix_nametable"
    /\ Len(log) < MaxCalls
    /\ \E r \in {fix_nametable(fonts[1])} :
           /\ fonts' = <<r.font>>
           /\ exc' = r.exc
           /\ pc' = IF r.exc = NoExc THEN "done" ELSE "raised"
    /\ log' = Append(log, "fix_nametable")
    /\ UNCHANGED <<call, fonts0, stat, gf>>

NextFixNametable == FixNametable

SpecFixNametable == InitFixNametable /\ [][NextFixNametable]_vars

\* Every token of the style name is a weight name or Italic
OnlyWeightsAndItalic(style) ==
    style # NoRec /\ \A i \in 1..Len(Split(style)) : WeightOrItalic(Split(style)[i])

\* The second application of fix_nametable to a font
SecondFix ==
    /\ call.fn = "fix_nametable"
    /\ Len(log) = 1 /\ pc = "done"
    /\ Len(log') = 2 /\ pc' = "done"

\* C6: for a static font whose style name has only weight names and Italic
\* as tokens, the second application of fix_nametable leaves nameID 1, 2, 16
\* and 17 as the first application left them.
C6_Idempotent ==
    [][ (SecondFix /\ ~fonts0[1].hasFvar
                   /\ OnlyWeightsAndItalic(font_stylename(fonts0[1])))
        => StyleRecords(fonts'[1]) = StyleRecords(fonts[1]) ]_vars


-----------------------------------------------------------------------------
(* The fixes of one font *)

UNWANTED_TABLES == {"FFTM", "TTFA", "TSI0", "TSI1", "TSI2", "TSI3", "TSI5", "prop", "MVAR"}

\* remove_tables(ttFont, tables); {} for the argument left out
remove_tables(f, tables) ==
    [f EXCEPT !.tables = @ \ (UNWANTED_TABLES \cap
                              (IF tables = {} THEN UNWANTED_TABLES ELSE tables))]

add_dummy_dsig(f) == [f EXCEPT !.tables = @ \cup {"DSIG"}]

fix_unhinted_font(f) == [f EXCEPT !.tables = @ \cup {"gasp", "prep"}]

fix_hinted_font(f) == [f EXCEPT !.headFlags = SetBit(@, 2^3)]

fix_fs_type(f) == FontRet([f EXCEPT !.fsType = 0], NoExc)

\* WEIGHT_VALUES: the weight name of a usWeightClass
WEIGHT_VALUES ==
    [v \in {WEIGHT_NAMES[k] : k \in DOMAIN WEIGHT_NAMES} |->
        CHOOSE k \in DOMAIN WEIGHT_NAMES : WEIGHT_NAMES[k] = v]

\* sorted(WEIGHT_NAMES, key=lambda k: len(k), reverse=True)
WeightsLongestFirst ==
    << "ExtraLight", "ExtraBlack", "ExtraBold", "SemiBold", "Hairline", "Regular",
       "Medium", "Light", "Black", "Thin", "Bold" >>

\* The first position of WeightsLongestFirst whose name is a token; 0 if none
FirstWeightIn(tokens) ==
    LET hits == {i \in 1..Len(WeightsLongestFirst) : InSeq(W(WeightsLongestFirst[i]), tokens)}
    IN  IF hits = {} THEN 0 ELSE Min(hits)

\* The usWeightClass of lines 169-176; 0 where there is none
WeightOf(tokens) ==
    IF FirstWeightIn(tokens) # 0 THEN WEIGHT_NAMES[WeightsLongestFirst[FirstWeightIn(tokens)]]
    ELSE IF InSeq(W("Italic"), tokens) THEN 400
    ELSE 0

\* A fix that leaves usWeightClass alone where the style names no weight
fix_weight_class_skipping(f) ==
    IF font_stylename(f) = NoRec THEN FontRet(f, "ValueError")
    ELSE IF WeightOf(Split(font_stylename(f))) = 0 THEN FontRet(f, NoExc)
    ELSE FontRet([f EXCEPT !.usWeightClass = WeightOf(Split(font_stylename(f)))], NoExc)

\* fix_weight_class(ttFont)
fix_weight_class(f) ==
    IF font_stylename(f) = NoRec \/ WeightOf(Split(font_stylename(f))) = 0
    THEN FontRet(f, "ValueError")
    ELSE FontRet([f EXCEPT !.usWeightClass = WeightOf(Split(font_stylename(f)))], NoExc)

\* fix_fs_selection(ttFont)
fix_fs_selection(f) ==
    IF font_stylename(f) = NoRec THEN FontRet(f, "ValueError")
    ELSE LET tokens == Split(font_stylename(f))
             italic == InSeq(W("Italic"), tokens)
             bold == InSeq(W("Bold"), tokens)
             kept == IF HasBit(f.fsSelection, Bit7) THEN Bit7 ELSE 0
         IN  FontRet([f EXCEPT !.fsSelection =
                        kept + (IF italic THEN 2^0 ELSE 0) + (IF bold THEN 2^5 ELSE 0)
                             + (IF ~italic /\ ~bold THEN 2^6 ELSE 0)],
                     NoExc)

\* fix_mac_style(ttFont)
fix_mac_style(f) ==
    IF font_stylename(f) = NoRec THEN FontRet(f, "ValueError")
    ELSE LET tokens == Split(font_stylename(f))
         IN  FontRet([f EXCEPT !.macStyle =
                        (IF InSeq(W("Italic"), tokens) THEN 2^1 ELSE 0)
                        + (IF InSeq(W("Bold"), tokens) THEN 2^0 ELSE 0)],
                     NoExc)

\* fix_italic_angle(ttFont)
fix_italic_angle(f) ==
    IF font_stylename(f) = NoRec THEN FontRet(f, "ValueError")
    ELSE IF ~Contains(font_stylename(f), W("Italic")) /\ f.italicAngle # 0
    THEN FontRet([f EXCEPT !.italicAngle = 0], NoExc)
    ELSE FontRet(f, NoExc)


\* range(lo, hi, 100) as a sequence
RECURSIVE Range100(_, _)
Range100(lo, hi) == IF lo >= hi THEN <<>> ELSE <<lo>> \o Range100(lo + 100, hi)

\* The name of the instance at a weight: lines 297-302
InstanceName(wght_val, is_italic) ==
    Replace(IF ~is_italic THEN W(WEIGHT_VALUES[wght_val])
            ELSE Strip(Fmt2(W(WEIGHT_VALUES[wght_val]), W("Italic"))),
            <<"Regular", SP, "Italic">>, W("Italic"))

\* The (weight, is_italic) pairs gen_instances is run on, in order
InstancePlan(f, wght_axis) ==
    LET vals == Range100(wght_axis.minValue, wght_axis.maxValue + 100)
        roman == [i \in 1..Len(vals) |-> <<vals[i], FALSE>>]
        italic == [i \in 1..Len(vals) |-> <<vals[i], TRUE>>]
    IN  IF \E i \in 1..Len(f.axes) : f.axes[i].axisTag \in {"slnt", "ital"}
        THEN roman \o italic
        ELSE IF Contains(font_stylename(f), W("Italic")) THEN italic
        ELSE roman

\* default_axis_vals, the one dict every instance's coordinates refer to,
\* as the last assignment of line 305 leaves it
SharedCoordinates(f, plan) ==
    [t \in {f.axes[i].axisTag : i \in 1..Len(f.axes)} |->
        IF t = "wght" THEN plan[Len(plan)][1]
        ELSE (CHOOSE a \in {f.axes[i] : i \in 1..Len(f.axes)} : a.axisTag = t).defaultValue]

\* fix_fvar_instances(ttFont).  addName gives the names nameID 256, 257, ...
fix_fvar_instances(f) ==
    IF ~f.hasFvar \/ font_stylename(f) = NoRec THEN FontRet(f, "ValueError")
    ELSE IF ~\E i \in 1..Len(f.axes) : f.axes[i].axisTag = "wght"
    THEN FontRet(f, "AttributeError")
    ELSE
      Let(InstancePlan(f, f.axes[Min({i \in 1..Len(f.axes) : f.axes[i].axisTag = "wght"})]),
          LAMBDA plan :
            LET unnamed == {i \in 1..Len(plan) : plan[i][1] \notin DOMAIN WEIGHT_VALUES}
                n == IF unnamed = {} THEN Len(plan) ELSE Min(unnamed) - 1
                added == [i \in 1..n |-> InstanceName(plan[i][1], plan[i][2])]
            IN  IF unnamed # {}
                THEN FontRet([f EXCEPT !.addedNames = @ \o added], "KeyError")
                ELSE FontRet([f EXCEPT
                        !.addedNames = @ \o added,
                        !.instances = [i \in 1..n |->
                            [subfamilyNameID |-> 255 + Len(f.addedNames) + i,
                             coordinates |-> SharedCoordinates(f, plan)]]],
                       NoExc))

\* r, or what Step makes of its font if r is no exception
Then(r, Step(_)) == IF r.exc # NoExc THEN r ELSE Step(r.font)

\* Lines 588-598 of fix_font
StructuralFixes(f) ==
    LET f1 == [f EXCEPT !.version = 4]
        f2 == IF "DSIG" \notin f1.tables THEN add_dummy_dsig(f1) ELSE f1
        f3 == IF "fpgm" \in f2.tables THEN fix_hinted_font(f2) ELSE fix_unhinted_font(f2)
    IN  IF f3.hasFvar THEN remove_tables(f3, {"MVAR"}) ELSE f3

\* Lines 605-614 of fix_font
SourceFixes(f) ==
    Then(Then(Then(Then(Then(Then(fix_nametable(remove_tables(f, {})),
        fix_fs_type), fix_fs_selection), fix_mac_style), fix_weight_class),
        fix_italic_angle),
        LAMBDA g : IF g.hasFvar THEN fix_fvar_instances(g) ELSE FontRet(g, NoExc))

\* fix_font(font, include_source_fixes)
fix_font(f, include_source_fixes) ==
    IF include_source_fixes THEN SourceFixes(StructuralFixes(f))
    ELSE FontRet(StructuralFixes(f), NoExc)


-----------------------------------------------------------------------------
(* fix_family *)

\* family_is_vf(ttFonts) raises ValueError
MixedFamily(fs) ==
    /\ \E i \in 1..Len(fs) : fs[i].hasFvar
    /\ \E i \in 1..Len(fs) : ~fs[i].hasFvar

\* A validation that lets mixed families through
_validate_family_unmixed(fs) ==
    IF \E i \in 1..Len(fs) : font_familyname(fs[i]) = NoRec THEN "ValueError"
    ELSE IF Cardinality({font_familyname(fs[i]) : i \in 1..Len(fs)}) # 1 THEN "ValueError"
    ELSE NoExc

\* _validate_family(ttFonts): the exception raised, if any
_validate_family(fs) ==
    IF MixedFamily(fs) THEN "ValueError"
    ELSE IF \E i \in 1..Len(fs) : font_familyname(fs[i]) = NoRec THEN "ValueError"
    ELSE IF Cardinality({font_familyname(fs[i]) : i \in 1..Len(fs)}) # 1 THEN "ValueError"
    ELSE NoExc

\* Google_Fonts_has_family(family_name), in the three outcomes of the lookup
Google_Fonts_has_family(g) ==
    CASE g.outcome = "found" -> [value |-> TRUE, exc |-> NoExc]
      [] g.outcome = "notfound" -> [value |-> FALSE, exc |-> NoExc]
      [] OTHER -> [value |-> FALSE, exc |-> "FileNotFoundError"]

\* download_family_from_Google_Fonts(family_name): the hosted fonts
download_family_from_Google_Fonts(g) == g.fonts

\* A lookup whose FileNotFoundError is not caught
AfterLookupUncaught(g) ==
    LET r == Google_Fonts_has_family(g)
    IN  IF r.exc # NoExc THEN [pc |-> "raised", exc |-> r.exc]
        ELSE [pc |-> IF r.value THEN "inherit" ELSE "vmetrics", exc |-> NoExc]

\* Lines 628-640: where fix_family goes on after the lookup
AfterLookup(g) ==
    LET r == Google_Fonts_has_family(g)
    IN  IF r.exc = "FileNotFoundError" THEN [pc |-> "vmetrics", exc |-> NoExc]
        ELSE IF r.exc # NoExc THEN [pc |-> "raised", exc |-> r.exc]
        ELSE [pc |-> IF r.value THEN "inherit" ELSE "vmetrics", exc |-> NoExc]

\* {font_stylename(f): f for f in fs}[style]: the last font of that style
LastOfStyle(fs, style) ==
    fs[Max({i \in 1..Len(fs) : font_stylename(fs[i]) = style})]

\* The hosted font a member of the given style inherits from: lines 494-504
SrcFont(gf_fonts, style) ==
    IF \E i \in 1..Len(gf_fonts) : font_stylename(gf_fonts[i]) = style
    THEN LastOfStyle(gf_fonts, style)
    ELSE LastOfStyle(gf_fonts, font_stylename(gf_fonts[1]))

\* inherit_vertical_metrics(ttFonts), given the hosted fonts
inherit_vertical_metrics(fs, gf_fonts) ==
    IF fs = <<>> \/ gf_fonts = <<>> THEN Ret(fs, "IndexError")
    ELSE IF font_familyname(fs[1]) = NoRec
            \/ (\E i \in 1..Len(gf_fonts) : font_stylename(gf_fonts[i]) = NoRec)
            \/ (\E i \in 1..Len(fs) : font_stylename(fs[i]) = NoRec)
    THEN Ret(fs, "ValueError")
    ELSE Ret(StrictSeq(
           [i \in 1..Len(fs) |->
              IF \E j \in (i + 1)..Len(fs) : font_stylename(fs[j]) = font_stylename(fs[i])
              THEN fs[i]      \* the dict of line 499 holds a later font of the style
              ELSE LET src_font == SrcFont(gf_fonts, font_stylename(fs[i]))
                       copied == copy_vertical_metrics(src_font, fs[i])
                   IN  IF typo_metrics_enabled(src_font)
                       THEN [copied EXCEPT !.fsSelection = SetBit(@, Bit7)]
                       ELSE copied]),
           NoExc)


Profile(winAscent) == CHOOSE m \in MetricsProfiles : m.usWinAscent = winAscent

\* The vertical metrics of a font hosted on Google Fonts
HostedProfile ==
    [usWinAscent |-> 1100, usWinDescent |-> 350, sTypoAscender |-> 850,
     sTypoDescender |-> -150, sTypoLineGap |-> 50,
     ascent |-> 1050, descent |-> -350, lineGap |-> 40]

Named(family, style, m, bb, sel) ==
    WithMetrics(WithStyle(BlankFont, family, style), m, bb, sel)

\* The fonts fix_family is called on
FamilyFonts ==
    { \* static, hinted, with an unwanted table
      [Named(W("Noto"), W("Regular"), Profile(900), <<-200, 800>>, 64) EXCEPT
          !.tables = {"fpgm", "FFTM"}, !.fsType = 8],
      \* static, unhinted, a slanted post table
      [Named(W("Noto"), W("Bold"), Profile(1000), <<-210, 790>>, 0) EXCEPT
          !.italicAngle = 0 - 10, !.otherNames = {1, 2}],
      \* static, no weight token and no Italic
      Named(W("Noto"), W("Condensed"), Profile(900), <<-200, 800>>, 192),
      \* static, typographic names
      [Named(W("Noto"), W("Regular"), Profile(1000), <<10, 700>>, 0) EXCEPT
          !.names[16] = W("Noto"), !.names[17] = <<"SemiBold", SP, "Italic">>],
      \* static, of another family
      Named(W("Other"), W("Regular"), Profile(900), <<-200, 800>>, 64),
      \* static, without name records
      WithMetrics(BlankFont, Profile(900), <<-200, 800>>, 0),
      \* variable
      [Named(W("Noto"), W("Regular"), Profile(1000), <<-210, 790>>, 192) EXCEPT
          !.hasFvar = TRUE, !.axes = WghtWide, !.tables = {"MVAR", "DSIG"}],
      [Named(W("Noto"), W("Italic"), Profile(900), <<-200, 800>>, 0) EXCEPT
          !.hasFvar = TRUE, !.axes = WghtNarrow] }

\* The families Google Fonts hosts under the name looked up
HostedFamilies ==
    { << Named(W("Noto"), W("Regular"), HostedProfile, <<-250, 850>>, 192) >>,
      << Named(W("Noto"), W("Bold"), Profile(900), <<-250, 850>>, 64),
         Named(W("Noto"), W("Regular"), HostedProfile, <<-250, 850>>, 192) >> }

\* The outcomes of the lookup: found, not found, no credential
Lookups ==
    { [outcome |-> "found", fonts |-> h] : h \in HostedFamilies }
    \cup { [outcome |-> o, fonts |-> <<>>] : o \in {"notfound", "nocred"} }

InitFamily ==
    /\ fonts \in SeqsOf(FamilyFonts, 0, MaxFonts)
    /\ fonts0 = fonts
    /\ pc = "start"
    /\ exc = NoExc
    /\ \E b \in BOOLEAN : call = [fn |-> "fix_family", include_source_fixes |-> b]
    /\ stat = <<>>
    /\ gf \in Lookups
    /\ log = <<>>

\* Line 621: _validate_family(fonts)
ValidateFamily ==
    /\ pc = "start"
    /\ call.fn = "fix_family"
    /\ \E e \in {_validate_family(fonts)} :
           /\ exc' = e
           /\ pc' = IF e = NoExc THEN "fix_font" ELSE "raised"
    /\ log' = Append(log, "_validate_family")
    /\ UNCHANGED <<fonts, fonts0, call, stat, gf>>

\* Lines 624-625: fix_font on the next font of the loop
FixFont ==
    /\ pc = "fix_font"
    /\ LET i == Len(SelectSeq(log, LAMBDA c : c = "fix_font")) + 1
       IN  \E r \in {fix_font(fonts[i], call.include_source_fixes)} :
             /\ fonts' = [fonts EXCEPT ![i] = r.font]
             /\ exc' = r.exc
             /\ pc' = IF r.exc # NoExc THEN "raised"
                      ELSE IF i < Len(fonts) THEN "fix_font"
                      ELSE IF call.include_source_fixes THEN "lookup"
                      ELSE "done"
    /\ log' = Append(log, "fix_font")
    /\ UNCHANGED <<fonts0, call, stat, gf>>

\* Lines 628-640: Google_Fonts_has_family(family_name) inside the try
Lookup ==
    /\ pc = "lookup"
    /\ \E r \in {AfterLookup(gf)} :
           /\ pc' = r.pc
           /\ exc' = r.exc
    /\ log' = Append(log, "Google_Fonts_has_family")
    /\ UNCHANGED <<fonts, fonts0, call, stat, gf>>

\* Line 630: inherit_vertical_metrics(fonts)
InheritVerticalMetrics ==
    /\ pc = "inherit"
    /\ \E r \in {inherit_vertical_metrics(fonts, download_family_from_Google_Fonts(gf))} :
           /\ fonts' = r.fonts
           /\ exc' = r.exc
           /\ pc' = IF r.exc = NoExc THEN "vmetrics" ELSE "raised"
    /\ log' = Append(log, "inherit_vertical_metrics")
    /\ UNCHANGED <<fonts0, call, stat, gf>>

\* Line 641: fix_vertical_metrics(fonts)
FamilyVerticalMetrics ==
    /\ pc = "vmetrics"
    /\ \E r \in {fix_vertical_metrics(fonts)} :
           /\ fonts' = r.fonts
           /\ exc' = r.exc
           /\ pc' = IF r.exc = NoExc THEN "done" ELSE "raised"
    /\ log' = Append(log, "fix_vertical_metrics")
    /\ UNCHANGED <<fonts0, call, stat, gf>>

NextFamily ==
    \/ ValidateFamily
    \/ FixFont
    \/ Lookup
    \/ InheritVerticalMetrics
    \/ FamilyVerticalMetrics

SpecFamily == InitFamily /\ [][NextFamily]_vars


\* The members of the family resolve to more than one family name
SeveralFamilyNames(fs) ==
    /\ \A i \in 1..Len(fs) : font_familyname(fs[i]) # NoRec
    /\ Cardinality({font_familyname(fs[i]) : i \in 1..Len(fs)}) > 1

\* C7: fix_family on a family that mixes static and variable fonts, or whose
\* members have more than one family name, goes nowhere but to a fatal
\* error, raised by the validation before any per-font fix or family-level
\* step, and no member font is modified.
C7_ValidationFirst ==
    (call.fn = "fix_family" /\ (MixedFamily(fonts0) \/ SeveralFamilyNames(fonts0)))
    => /\ fonts = fonts0
       /\ pc \in {"start", "raised"}
       /\ pc = "raised" => exc = "ValueError" /\ log = <<"_validate_family">>

\* A family of a static and a variable font of one family name has been
\* refused
C7_Witness ==
    /\ call.fn = "fix_family"
    /\ MixedFamily(fonts0) /\ ~SeveralFamilyNames(fonts0)
    /\ pc = "raised"
    /\ fonts = fonts0

Last(s) == s[Len(s)]

\* C8: in source-fix mode, whatever the lookup of the reference family
\* gives (found, not found, no credential): fix_family never aborts at or
\* after the lookup; when it returns, fix_vertical_metrics was its last
\* step, run after the lookup, all members have the same eight vertical
\* metrics and fsSelection bit 7 set, and the metrics were inherited first
\* if the family was found; inherit_vertical_metrics is never called when
\* the family is not found or the credential is missing.
C8_LookupRecovered ==
    (call.fn = "fix_family" /\ call.include_source_fixes)
    => /\ pc = "raised" => ~InSeq("Google_Fonts_has_family", log)
       /\ exc # "FileNotFoundError"
       /\ pc = "done" =>
            /\ Harmonized(fonts)
            /\ Last(log) = "fix_vertical_metrics"
            /\ InSeq("Google_Fonts_has_family", SubSeq(log, 1, Len(log) - 1))
            /\ gf.outcome = "found" =>
                 SubSeq(log, Len(log) - 2, Len(log)) =
                    <<"Google_Fonts_has_family", "inherit_vertical_metrics",
                      "fix_vertical_metrics">>
       /\ gf.outcome \in {"notfound", "nocred"} =>
            ~InSeq("inherit_vertical_metrics", log)

\* fix_family has returned in source-fix mode without a credential for the
\* lookup, on two fonts whose vertical metrics differed
C8_Witness ==
    /\ call.fn = "fix_family" /\ call.include_source_fixes
    /\ gf.outcome = "nocred"
    /\ pc = "done"
    /\ Len(fonts) = 2
    /\ ~SameVerticalMetrics(fonts0[1], fonts0[2])
    /\ Harmonized(fonts)


-----------------------------------------------------------------------------
(* stylename_to_axes called on a style name *)

\* The symbols the style names are written with here: fallback names of one
\* axis, of two axes, and of none
AxisStyleSyms == { SP, "Roman", "Italic", "Bold", "Condensed", "Foo" }

InitAxes ==
    /\ fonts = <<>>
    /\ fonts0 = fonts
    /\ pc = "start"
    /\ exc = NoExc
    /\ \E s \in SeqsOf(AxisStyleSyms, 0, MaxStyleLen) :
           call = [fn |-> "stylename_to_axes", font_style |-> s, returned |-> <<>>]
    /\ stat = <<>>
    /\ gf = NoGF
    /\ log = <<>>

\* The call stylename_to_axes(font_style)
StylenameToAxes ==
    /\ pc = "start"
    /\ call.fn = "stylename_to_axes"
    /\ call' = [call EXCEPT !.returned = stylename_to_axes(call.font_style)]
    /\ pc' = "done"
    /\ log' = Append(log, "stylename_to_axes")
    /\ UNCHANGED <<fonts, fonts0, exc, stat, gf>>

NextAxes == StylenameToAxes

SpecAxes == InitAxes /\ [][NextAxes]_vars

\* The positions of the registry's axes that have the token as fallback name
MatchingAxes(token) ==
    {i \in 1..Len(axis_registry) :
        \E k \in 1..Len(axis_registry[i].fallback) :
            W(axis_registry[i].fallback[k].name) = token}

\* One tag per token that matches an axis: that of the first matching axis
RECURSIVE FirstMatches(_)
FirstMatches(tokens) ==
    IF tokens = <<>> THEN <<>>
    ELSE (IF MatchingAxes(Head(tokens)) = {} THEN <<>>
          ELSE <<axis_registry[Min(MatchingAxes(Head(tokens)))].tag>>)
         \o FirstMatches(Tail(tokens))

\* C11: stylename_to_axes returns one axis tag per token that is a fallback
\* name of some axis, in the order of the tokens: the first matching axis in
\* registry order for a token that matches several, nothing for a token
\* that matches none, repeated tags kept.
C11_OneTagPerToken ==
    (call.fn = "stylename_to_axes" /\ pc = "done")
    => call.returned = FirstMatches(Split(call.font_style))


-----------------------------------------------------------------------------
(* fix_vertical_metrics: the win metrics and the order of the family *)

\* fix_vertical_metrics has returned
MetricsFixed == pc = "done" /\ call.fn = "fix_vertical_metrics"

\* C12: after fix_vertical_metrics on a family, every member's usWinAscent
\* is the greatest head.yMax of the members and every member's usWinDescent
\* the absolute value of their least head.yMin, whichever member is the
\* reference; yMin -200 and -210 with yMax 800 and 790 give 210 and 800.
C12_WinMetricsFromBBox ==
    MetricsFixed =>
      /\ \A i \in 1..Len(fonts) :
           /\ fonts[i].usWinAscent = Max({fonts0[j].yMax : j \in 1..Len(fonts0)})
           /\ fonts[i].usWinDescent = Abs(Min({fonts0[j].yMin : j \in 1..Len(fonts0)}))
      /\ ({<<fonts0[j].yMin, fonts0[j].yMax>> : j \in 1..Len(fonts0)}
              = {<<-200, 800>>, <<-210, 790>>})
         => \A i \in 1..Len(fonts) :
               fonts[i].usWinDescent = 210 /\ fonts[i].usWinAscent = 800

\* The call returned on the family of the example, its second member, the
\* one styled Regular, being the reference
C12_Witness ==
    /\ MetricsFixed
    /\ Len(fonts0) = 2
    /\ <<fonts0[1].yMin, fonts0[1].yMax>> = <<-200, 800>>
    /\ <<fonts0[2].yMin, fonts0[2].yMax>> = <<-210, 790>>
    /\ font_stylename(fonts0[1]) = W("Bold")
    /\ font_stylename(fonts0[2]) = W("Regular")
    /\ fonts[1].usWinDescent = 210 /\ fonts[1].usWinAscent = 800


-----------------------------------------------------------------------------
(* fix_family on a font whose style name has no weight token *)

\* The style name has a record and none of its tokens is a weight name
NoWeightToken(f) ==
    /\ font_stylename(f) # NoRec
    /\ \A k \in 1..Len(Split(font_stylename(f))) : ~IsWeightName(Split(font_stylename(f))[k])

\* C13: in source-fix mode, fix_family on a family that passes validation
\* and has a member whose style name has no weight token does not raise:
\* every font gets its fix_font and the family-level steps run.
C13_NoWeightRecovered ==
    (/\ call.fn = "fix_family" /\ call.include_source_fixes
     /\ \E i \in 1..Len(fonts0) : NoWeightToken(fonts0[i]))
    => (pc = "raised" => ~InSeq("fix_font", log))


HasItalicToken(f) == \E k \in 1..Len(Split(font_stylename(f))) :
                        Split(font_stylename(f))[k] = W("Italic")

\* The number of fix_font calls fix_family has made
FixedFonts == Len(SelectSeq(log, LAMBDA c : c = "fix_font"))

\* C13 amended: in source-fix mode, on a family that passes validation, a
\* member whose style name has neither a weight token nor the token Italic
\* is fatal: its fix_font raises ValueError, fix_family stops there, the
\* members after it are left as they were and no family-level step runs;
\* a member with the token Italic and no weight token is given
\* usWeightClass 400.
C13_NoWeightFatal ==
    (call.fn = "fix_family" /\ call.include_source_fixes)
    => \A i \in 1..Len(fonts0) :
         /\ (NoWeightToken(fonts0[i]) /\ ~HasItalicToken(fonts0[i]) /\ FixedFonts >= i)
            => /\ pc = "raised" /\ exc = "ValueError"
               /\ FixedFonts = i
               /\ \A j \in (i + 1)..Len(fonts0) : fonts[j] = fonts0[j]
               /\ Last(log) = "fix_font"
         /\ (NoWeightToken(fonts0[i]) /\ HasItalicToken(fonts0[i])
                /\ (FixedFonts > i \/ (FixedFonts = i /\ pc # "raised")))
            => fonts[i].usWeightClass = 400

\* fix_family has stopped at its second font, styled without weight, the
\* first one already fixed
C13_Witness ==
    /\ call.fn = "fix_family" /\ call.include_source_fixes
    /\ Len(fonts0) = 2
    /\ ~NoWeightToken(fonts0[1])
    /\ NoWeightToken(fonts0[2]) /\ ~HasItalicToken(fonts0[2])
    /\ pc = "raised" /\ FixedFonts = 2
    /\ fonts[1] # fonts0[1]


-----------------------------------------------------------------------------
(* fix_vertical_metrics and the order of the family *)

\* The orderings of n fonts
Orderings(n) == {p \in [1..n -> 1..n] : \A i, j \in 1..n : p[i] = p[j] => i = j}

Reordered(fs, p) == [i \in 1..Len(fs) |-> fs[p[i]]]

\* The reference font: the first member styled Regular, else the first
Reference(fs) ==
    IF \E i \in 1..Len(fs) : font_stylename(fs[i]) = W("Regular")
    THEN fs[CHOOSE i \in 1..Len(fs) :
               /\ font_stylename(fs[i]) = W("Regular")
               /\ \A j \in 1..(i - 1) : font_stylename(fs[j]) # W("Regular")]
    ELSE fs[1]

\* Every font has the same eight values after fix_vertical_metrics on the
\* family as passed and on the family in the ordering p
SameUnderOrdering(p) ==
    LET other == fix_vertical_metrics(Reordered(fonts0, p))
    IN  other.exc = NoExc =>
          \A i \in 1..Len(fonts0) : SameVerticalMetrics(other.fonts[i], fonts[p[i]])

\* C14: for any family and any two orderings of its members under which
\* fix_vertical_metrics returns, every font is left with the same eight
\* vertical-metrics values under both, also when no member is styled
\* Regular and when the members start with different metrics.
C14_OrderIndependent ==
    MetricsFixed => \A p \in Orderings(Len(fonts0)) : SameUnderOrdering(p)

\* C14 amended: the same, for two orderings that have the same reference
\* font (the first member styled exactly Regular, else the first member).
C14_SameReference ==
    MetricsFixed =>
      \A p \in Orderings(Len(fonts0)) :
         Reference(Reordered(fonts0, p)) = Reference(fonts0) => SameUnderOrdering(p)

\* The call returned on a Bold and a Regular member that began with
\* different metrics, the Regular one second
C14_Witness ==
    /\ MetricsFixed
    /\ Len(fonts0) = 2
    /\ font_stylename(fonts0[1]) = W("Bold")
    /\ font_stylename(fonts0[2]) = W("Regular")
    /\ ~SameVerticalMetrics(fonts0[1], fonts0[2])
    /\ fonts0[1].yMin # fonts0[2].yMin
    /\ SameUnderOrdering(<<2, 1>>)


-----------------------------------------------------------------------------
(* fix_fvar_instances called on a font *)

\* The wght axes of the model's fonts: <<minValue, maxValue>>
WghtRanges ==
    { <<lo, hi>> : lo \in {100, 300, 350, 400}, hi \in {400, 650, 700, 900} }

\* The axes a font has besides wght
OtherAxes == { <<>>, << Axis("wdth", 75, 100, 125) >>, << Axis("ital", 0, 0, 1) >> }

InstanceStyles == { W("Regular"), W("Italic"), W("Bold"), <<"Bold", SP, "Italic">>, NoRec }

\* A variable font with the wght axis last
VariableFont(style, others, r) ==
    [WithStyle(BlankFont, W("Noto"), style) EXCEPT
        !.hasFvar = TRUE, !.axes = others \o << Axis("wght", r[1], r[1], r[2]) >>]

InstanceFonts ==
    { VariableFont(st, o, r) : st \in InstanceStyles, o \in OtherAxes, r \in WghtRanges }
    \cup { \* a static font; a variable font without wght axis
           WithStyle(BlankFont, W("Noto"), W("Regular")),
           [WithStyle(BlankFont, W("Noto"), W("Regular")) EXCEPT
               !.hasFvar = TRUE, !.axes = WdthOnly],
           \* a variable font that has an instance already
           [VariableFont(W("Regular"), <<>>, <<400, 700>>) EXCEPT
               !.addedNames = << W("Text") >>,
               !.instances = << [subfamilyNameID |-> 256,
                                 coordinates |-> [t \in {"wght"} |-> 450]] >>] }

InitInstances ==
    /\ fonts \in { <<f>> : f \in InstanceFonts }
    /\ fonts0 = fonts
    /\ pc = "start"
    /\ exc = NoExc
    /\ call = [fn |-> "fix_fvar_instances"]
    /\ stat = <<>>
    /\ gf = NoGF
    /\ log = <<>>

\* The call fix_fvar_instances(ttFont)
FixFvarInstances ==
    /\ pc = "start"
    /\ call.fn = "fix_fvar_instances"
    /\ \E r \in {fix_fvar_instances(fonts[1])} :
           /\ fonts' = <<r.font>>
           /\ exc' = r.exc
           /\ pc' = IF r.exc = NoExc THEN "done" ELSE "raised"
    /\ log' = Append(log, "fix_fvar_instances")
    /\ UNCHANGED <<call, fonts0, stat, gf>>

NextInstances == FixFvarInstances

SpecInstances == InitInstances /\ [][NextInstances]_vars


\* The name of an instance of the font
NameOfInstance(f, inst) == f.addedNames[inst.subfamilyNameID - 255]

\* The weight a name denotes: that of its weight token, 400 for "Italic"
DenotedWeight(name) ==
    IF IsWeightName(<<Head(name)>>) THEN WEIGHT_NAMES[Head(name)] ELSE 400

\* The 100-steps from the minimum of the axis up to its maximum
Steps(axis) ==
    {w \in axis.minValue..(axis.maxValue + 99) : (w - axis.minValue) % 100 = 0}

\* C15: after fix_fvar_instances on a variable font with a wght axis, the
\* instances stand for the 100-steps of weight from the axis minimum, the
\* wght coordinate of each instance is the weight its name denotes, and
\* each other coordinate is the fvar default of its axis.
C15_OwnCoordinates ==
    (call.fn = "fix_fvar_instances" /\ pc = "done")
    => LET f == fonts[1]
           wght == CHOOSE a \in SeqToSet(f.axes) : a.axisTag = "wght"
       IN  /\ {DenotedWeight(NameOfInstance(f, f.instances[i])) :
                   i \in 1..Len(f.instances)} = Steps(wght)
           /\ \A i \in 1..Len(f.instances) :
                /\ f.instances[i].coordinates["wght"]
                      = DenotedWeight(NameOfInstance(f, f.instances[i]))
                /\ \A a \in SeqToSet(f.axes) :
                      a.axisTag # "wght" =>
                         f.instances[i].coordinates[a.axisTag] = a.defaultValue

=============================================================================
